---- MODULE Spec2Model ----
(***************************************************************************)
(* Order lifecycle and loyalty-credit ledger of the lavadero Cloud         *)
(* Functions: the Firestore triggers onOrderCreate, onOrderComplete and    *)
(* onOrderCancel, the documents they read and write, and the change        *)
(* notifications that invoke them.  Every await of a handler is a separate *)
(* step, so handlers of different notifications interleave freely.         *)
(***************************************************************************)
EXTENDS Integers, FiniteSets, Sequences, TLC

\* ----------------------------------------------------------------- bounds
MaxOrders == 2
MaxWrites == 2
MaxDup == 1
MaxInFlight == 2

\* -------------------------------------------------------------- constants
DefaultWashesRequired == 6

Orders == 1..MaxOrders
\* The customer (a vehicle plate) the orders belong to; its users/{id}
\* record may or may not exist.
Customers == {"c1"}
\* w1 has a workers/{id} record, w2 has none
Workers == {"w1", "w2"}
NoWorker == "none"
Statuses == {"pending", "in_progress", "completed", "cancelled"}
ActiveStatuses == {"pending", "in_progress"}
UpdateHandlers == {"complete", "cancel"}

VARIABLES
    settings,       \* settings/app_config
    users,          \* users/{userId}
    workers,        \* workers/{workerId}
    orders,         \* orders/{orderId}
    orderAudit,     \* orderAudit collection
    notifications,  \* push notifications handed to the dispatcher
    procs,          \* running handler invocations
    writes,         \* status writes made by clients so far
    dups,           \* notifications delivered a second time so far
    initStats,      \* history: the customers' stats in the initial state
    ledgerLog,      \* history: the customer-record mutations applied
    history,        \* history: the versions written of each order document
    ratingOrders,   \* orders/{orderId} as onRatingAdded reads them
    workerStats,    \* workers/{workerId}.stats rating fields
    alerts,         \* alerts collection
    ratingProcs,    \* running onRatingAdded invocations
    args,           \* the arguments a calculation is applied to
    result,         \* the value the calculation returned
    dailyReports,   \* dailyReports collection
    fcmUsers,       \* users/{userId} as sendToUser reads them
    sendCalls,      \* running sendToUser calls
    sendLog,        \* history: the sendToUser calls that returned
    adminCall,      \* the sendNotification call: its request and position
    dispatched,     \* the sends sendNotification handed to the dispatcher
    notificationLog \* notifications collection (the admin send log)

dbVars == <<settings, users, workers, orders, orderAudit, notifications>>
\* The order lifecycle and the customer ledger.
coreVars == <<settings, users, workers, orders, orderAudit, notifications,
              procs, writes, dups, initStats, ledgerLog, history>>
ratingVars == <<ratingOrders, workerStats, alerts, ratingProcs>>
calcVars == <<args, result, dailyReports>>
sendVars == <<fcmUsers, sendCalls, sendLog>>
\* What the order-lifecycle handlers neither read nor write.
adminVars == <<adminCall, dispatched, notificationLog>>
sideVars == <<ratingVars, calcVars, sendVars, adminVars>>
vars == <<coreVars, sideVars>>

\* A document that does not exist.
NoOrder ==
    [exists |-> FALSE, v |-> 0, userId |-> "none", status |-> "none",
     isFreeWash |-> FALSE, paymentMethod |-> "none", worker |-> NoWorker,
     cancelledBy |-> "none", cancelReason |-> "none",
     processingError |-> FALSE, completionError |-> FALSE,
     cancellationError |-> FALSE]

NoUser ==
    [exists |-> FALSE, totalOrders |-> 0, completedOrders |-> 0,
     cancelledOrders |-> 0, freeWashesAvailable |-> 0, lastVisit |-> <<>>]

\* The order document a client creates: status pending, and a redemption
\* order carries isFreeWash together with paymentMethod "redeemed".
NewOrder(u, redeem, w) ==
    [NoOrder EXCEPT !.exists = TRUE, !.v = 1, !.userId = u,
                    !.status = "pending", !.isFreeWash = redeem,
                    !.paymentMethod = IF redeem THEN "redeemed" ELSE "cash",
                    !.worker = w]

\* settings/app_config as getAppSettings returns it.
DefaultSettings ==
    [exists |-> FALSE, washesRequiredForFree |-> DefaultWashesRequired,
     orderCompleted |-> TRUE, freeWashAvailable |-> TRUE]

\* A settings/app_config document: promotions.washesRequiredForFree (0 also
\* stands for a document that leaves it unset) and the notification toggles.
SettingsWith(w, orderCompleted, freeWashAvailable) ==
    [exists |-> TRUE, washesRequiredForFree |-> w,
     orderCompleted |-> orderCompleted,
     freeWashAvailable |-> freeWashAvailable]

SettingsDoc(w) == SettingsWith(w, TRUE, TRUE)

getAppSettings == IF settings.exists THEN settings ELSE DefaultSettings

\* settings.promotions?.washesRequiredForFree || 6
WashesRequired ==
    IF getAppSettings.washesRequiredForFree = 0
    THEN DefaultWashesRequired
    ELSE getAppSettings.washesRequiredForFree

\* shouldGetFreeWash applied to the count before its increment.
shouldGetFreeWashBeforeIncrement(completedOrders, washesRequired) ==
    IF washesRequired <= 0
    THEN FALSE
    ELSE (completedOrders - 1) % washesRequired = 0

\* The modulo test alone.
shouldGetFreeWashOnModulo(completedOrders, washesRequired) ==
    IF washesRequired <= 0
    THEN FALSE
    ELSE completedOrders % washesRequired = 0

shouldGetFreeWash(completedOrders, washesRequired) ==
    IF washesRequired <= 0
    THEN FALSE
    ELSE completedOrders > 0 /\ completedOrders % washesRequired = 0

\* ------------------------------------------------------ handler invocations
\* One invocation of a trigger: the handler h, the notification it was
\* given (order id o, snapshots before/after; after.v identifies the write),
\* copy 2 being a second delivery of the same notification, the position pc
\* and the handler's local values.
Proc(h, o, before, after, copy, pc) ==
    [h |-> h, o |-> o, before |-> before, after |-> after, copy |-> copy,
     pc |-> pc, earned |-> FALSE]

At(p, pc) == [p EXCEPT !.pc = pc]

\* A test of the new status alone.
CompleteFiresOnStatus(before, after) == after.status = "completed"

\* Guards that look at the snapshot after the write only.
FiresOnAfter(h, before, after) ==
    IF h = "complete" THEN after.status = "completed"
    ELSE after.status = "cancelled"

\* if (beforeData.status === "completed" || afterData.status !== "completed")
\*   return null;
CompleteFires(before, after) ==
    ~(before.status = "completed" \/ after.status # "completed")

\* A test of the new status alone.
CancelFiresOnStatus(before, after) == after.status = "cancelled"

\* if (beforeData.status === "cancelled" || afterData.status !== "cancelled")
\*   return null;
CancelFires(before, after) ==
    ~(before.status = "cancelled" \/ after.status # "cancelled")

\* The invocations a write of order o (before -> after) starts.  Every
\* onUpdate trigger receives the notification and first tests the two
\* snapshots it was handed; a trigger whose test fails returns at once and
\* is not kept as an invocation.  d names the handler that receives the
\* notification twice (at-least-once delivery), or "none".
Fires(h, before, after) ==
    IF h = "complete" THEN CompleteFires(before, after)
    ELSE CancelFires(before, after)

Spawn(o, before, after, d) ==
    { Proc(h, o, before, after, 1, "txn") :
        h \in { g \in UpdateHandlers : Fires(g, before, after) } }
    \cup { Proc(h, o, before, after, 2, "txn") :
        h \in { g \in UpdateHandlers \cap {d} : Fires(g, before, after) } }

SpawnCreate(o, after, d) ==
    { Proc("create", o, NoOrder, after, c, "getActive") :
        c \in (IF d = "create" THEN {1, 2} ELSE {1}) }

DupChoices(hs) == IF dups < MaxDup THEN hs \cup {"none"} ELSE {"none"}

\* The second deliveries possible for a write before -> after of an order.
UpdateDups(before, after) ==
    DupChoices({ g \in UpdateHandlers : Fires(g, before, after) })

DupCount(d) == IF d = "none" THEN 0 ELSE 1

\* History: handler invocation p has applied a mutation of the given kind to
\* the customer record; the entry keeps the notification's own fields.
LogEntry(p, kind) ==
    [kind |-> kind, o |-> p.o, v |-> p.after.v, copy |-> p.copy,
     u |-> p.after.userId, before |-> p.before.status,
     paymentMethod |-> p.after.paymentMethod,
     isFreeWash |-> p.after.isFreeWash, worker |-> p.after.worker,
     earned |-> FALSE]

\* History: the status and redemption flag a write leaves on an order.
Version(after) == [status |-> after.status, isFreeWash |-> after.isFreeWash]

\* ---------------------------------------------------------------- initial
InitChoices ==
    { [s |-> SettingsDoc(2), exists |-> TRUE, completed |-> 3, free |-> 1],
      [s |-> DefaultSettings, exists |-> TRUE, completed |-> 11, free |-> 1],
      [s |-> SettingsDoc(2), exists |-> FALSE, completed |-> 0, free |-> 0] }

CoreInit(c) ==
        /\ settings = c.s
        /\ users = [u \in Customers |->
               IF c.exists
               THEN [exists |-> TRUE, totalOrders |-> c.completed,
                     completedOrders |-> c.completed, cancelledOrders |-> 0,
                     freeWashesAvailable |-> c.free, lastVisit |-> <<>>]
               ELSE NoUser]
        /\ workers = [w \in Workers |->
               [exists |-> (w = "w1"), totalOrdersCompleted |-> 0]]
        /\ orders = [o \in Orders |-> NoOrder]
        /\ orderAudit = {}
        /\ notifications = {}
        /\ procs = {}
        /\ writes = 0
        /\ dups = 0
        /\ initStats = users
        /\ ledgerLog = {}
        /\ history = [o \in Orders |-> <<>>]

\* Nothing rated, nothing calculated, nothing sent.
RatingIdle ==
    /\ ratingOrders = <<>> /\ workerStats = <<>>
    /\ alerts = {} /\ ratingProcs = {}

CalcIdle == args = <<>> /\ result = <<>> /\ dailyReports = {}

SendIdle == fcmUsers = <<>> /\ sendCalls = {} /\ sendLog = {}

AdminIdle == adminCall = <<>> /\ dispatched = {} /\ notificationLog = {}

InitWith(c) ==
    CoreInit(c) /\ RatingIdle /\ CalcIdle /\ SendIdle /\ AdminIdle

Init == \E c \in InitChoices : InitWith(c)

\* ------------------------------------------------------------ environment
\* A client creates order o: the document appears and onOrderCreate is
\* invoked with its snapshot.
ClientCreate(o, u, redeem, w, d) ==
    /\ ~orders[o].exists
    /\ Cardinality(procs \cup SpawnCreate(o, NewOrder(u, redeem, w), d))
           <= MaxInFlight
    /\ orders' = [orders EXCEPT ![o] = NewOrder(u, redeem, w)]
    /\ history' = [history EXCEPT ![o] = <<Version(NewOrder(u, redeem, w))>>]
    /\ procs' = procs \cup SpawnCreate(o, NewOrder(u, redeem, w), d)
    /\ dups' = dups + DupCount(d)
    /\ UNCHANGED <<settings, users, workers, orderAudit, notifications,
                   writes, initStats, ledgerLog>>

\* A client or worker writes status s on order o; nothing in the handlers
\* restricts which status follows which.
ClientWrite(o, s, d) ==
    /\ orders[o].exists
    /\ orders[o].status # s
    /\ writes < MaxWrites
    /\ LET after == [orders[o] EXCEPT !.status = s, !.v = @ + 1,
                        !.cancelledBy = IF s = "cancelled" THEN "user" ELSE @,
                        !.cancelReason = IF s = "cancelled" THEN "user" ELSE @]
       IN /\ d \in UpdateDups(orders[o], after)
          /\ Cardinality(procs \cup Spawn(o, orders[o], after, d))
                 <= MaxInFlight
          /\ orders' = [orders EXCEPT ![o] = after]
          /\ history' = [history EXCEPT ![o] = Append(@, Version(after))]
          /\ procs' = procs \cup Spawn(o, orders[o], after, d)
    /\ writes' = writes + 1
    /\ dups' = dups + DupCount(d)
    /\ UNCHANGED <<settings, users, workers, orderAudit, notifications,
                   initStats, ledgerLog>>

\* snap.ref.update / change.after.ref.update by a handler p: the order
\* document changes and the onUpdate triggers are notified.
HandlerWrite(p, after, d) ==
    /\ d \in UpdateDups(orders[p.o], after)
    /\ orders' = [orders EXCEPT ![p.o] = after]
    /\ history' = [history EXCEPT ![p.o] = Append(@, Version(after))]
    /\ procs' = (procs \ {p}) \cup Spawn(p.o, orders[p.o], after, d)
    /\ dups' = dups + DupCount(d)

\* The customer of the order a handler was notified about.
UserOf(p) == p.after.userId

Stamp(p) == <<p.h, p.o>>

\* ------------------------------------------------------------ onOrderCreate
\* getActiveOrder: one order of the customer in {pending, in_progress},
\* whichever the query returns first, or "null".
ActiveOrders(u) ==
    { x \in Orders : /\ orders[x].exists
                     /\ orders[x].userId = u
                     /\ orders[x].status \in ActiveStatuses }

getActiveOrder(u) == IF ActiveOrders(u) = {} THEN {0} ELSE ActiveOrders(u)

hasFreeWashesAvailable(u) ==
    users[u].exists /\ users[u].freeWashesAvailable > 0

CreateNextPc(p, a) ==
    IF a # 0 /\ a # p.o THEN "cancelActive"
    ELSE IF p.after.isFreeWash THEN "hasFree"
    ELSE "stats"

CreateGetActive(p, a) ==
    /\ p.h = "create" /\ p.pc = "getActive"
    /\ a \in getActiveOrder(UserOf(p))
    /\ procs' = (procs \ {p}) \cup {At(p, CreateNextPc(p, a))}
    /\ UNCHANGED <<dbVars, writes, dups, initStats, ledgerLog, history>>

CreateCancelActive(p, d) ==
    /\ p.h = "create" /\ p.pc = "cancelActive"
    /\ HandlerWrite(p, [orders[p.o] EXCEPT !.status = "cancelled",
                           !.cancelledBy = "system",
                           !.cancelReason = "active", !.v = @ + 1], d)
    /\ UNCHANGED <<settings, users, workers, orderAudit, notifications,
                   writes, initStats, ledgerLog>>

CreateHasFree(p) ==
    /\ p.h = "create" /\ p.pc = "hasFree"
    /\ procs' = (procs \ {p}) \cup
           {At(p, IF hasFreeWashesAvailable(UserOf(p))
                  THEN "deduct" ELSE "cancelNoFree")}
    /\ UNCHANGED <<dbVars, writes, dups, initStats, ledgerLog, history>>

\* The force-cancel without the correction of the flag.
CreateCancelNoFreeKeepingFlag(p, d) ==
    /\ p.h = "create" /\ p.pc = "cancelNoFree"
    /\ HandlerWrite(p, [orders[p.o] EXCEPT !.status = "cancelled",
                           !.cancelledBy = "system",
                           !.cancelReason = "nofree", !.v = @ + 1], d)
    /\ UNCHANGED <<settings, users, workers, orderAudit, notifications,
                   writes, initStats, ledgerLog>>

CreateCancelNoFree(p, d) ==
    /\ p.h = "create" /\ p.pc = "cancelNoFree"
    /\ HandlerWrite(p, [orders[p.o] EXCEPT !.status = "cancelled",
                           !.cancelledBy = "system",
                           !.cancelReason = "nofree",
                           !.isFreeWash = FALSE, !.v = @ + 1], d)
    /\ UNCHANGED <<settings, users, workers, orderAudit, notifications,
                   writes, initStats, ledgerLog>>

\* users/{userId}.update({freeWashesAvailable: increment(-1)}); an update of
\* a record that does not exist throws.
CreateDeduct(p) ==
    /\ p.h = "create" /\ p.pc = "deduct"
    /\ IF users[UserOf(p)].exists
       THEN /\ users' = [users EXCEPT ![UserOf(p)].freeWashesAvailable = @ - 1]
            /\ procs' = (procs \ {p}) \cup {At(p, "stats")}
            /\ ledgerLog' = ledgerLog \cup {LogEntry(p, "deduct")}
       ELSE /\ procs' = (procs \ {p}) \cup {At(p, "error")}
            /\ UNCHANGED <<users, ledgerLog>>
    /\ UNCHANGED <<settings, workers, orders, orderAudit, notifications,
                   writes, dups, initStats, history>>

CreateStats(p) ==
    /\ p.h = "create" /\ p.pc = "stats"
    /\ IF users[UserOf(p)].exists
       THEN /\ users' = [users EXCEPT ![UserOf(p)].totalOrders = @ + 1,
                                      ![UserOf(p)].lastVisit = Stamp(p)]
            /\ procs' = (procs \ {p})
            /\ ledgerLog' = ledgerLog \cup {LogEntry(p, "stats")}
       ELSE /\ procs' = (procs \ {p}) \cup {At(p, "error")}
            /\ UNCHANGED <<users, ledgerLog>>
    /\ UNCHANGED <<settings, workers, orders, orderAudit, notifications,
                   writes, dups, initStats, history>>

\* userRef.update({totalOrders, lastVisit}) rejects although the record
\* exists: the exception reaches the catch.
CreateStatsFails(p) ==
    /\ p.h = "create" /\ p.pc = "stats"
    /\ users[UserOf(p)].exists
    /\ procs' = (procs \ {p}) \cup {At(p, "error")}
    /\ UNCHANGED <<dbVars, writes, dups, initStats, ledgerLog, history>>

\* A catch that also cancels the order.
CreateErrorCancelsOrder(p, d) ==
    /\ p.h = "create" /\ p.pc = "error"
    /\ HandlerWrite(p, [orders[p.o] EXCEPT !.processingError = TRUE,
                                           !.status = "cancelled",
                                           !.v = @ + 1], d)
    /\ UNCHANGED <<settings, users, workers, orderAudit, notifications,
                   writes, initStats, ledgerLog>>

CreateError(p, d) ==
    /\ p.h = "create" /\ p.pc = "error"
    /\ HandlerWrite(p, [orders[p.o] EXCEPT !.processingError = TRUE,
                                           !.v = @ + 1], d)
    /\ UNCHANGED <<settings, users, workers, orderAudit, notifications,
                   writes, initStats, ledgerLog>>

\* ---------------------------------------------------------- onOrderComplete
\* Taking the redemption from the isFreeWash flag.
isRedeemingByFlag(p) == p.after.isFreeWash

\* Treating no completion as the completion of a redemption.
isRedeemingNever(p) == FALSE

isRedeemingFreeWash(p) == p.after.paymentMethod = "redeemed"

\* A transaction function that computes from the record as first read.
StaleTxnRead(u) == initStats[u]

\* The record the transaction function reads: runTransaction serializes
\* the transactions on a record, so the committed function has read the
\* record as it is when its update applies.
TxnRead(u) == users[u]

\* Sending the free-wash notification whatever its toggle.
AfterCommitPcIgnoringToggle(p, earned) ==
    IF getAppSettings.orderCompleted THEN "notifyCompleted"
    ELSE IF earned THEN "notifyEarned"
    ELSE IF p.after.worker # NoWorker THEN "worker"
    ELSE "done"

AfterCommitPc(p, earned) ==
    IF getAppSettings.orderCompleted THEN "notifyCompleted"
    ELSE IF earned /\ getAppSettings.freeWashAvailable THEN "notifyEarned"
    ELSE IF p.after.worker # NoWorker THEN "worker"
    ELSE "done"

Continue(p, q) == IF q.pc = "done" THEN procs \ {p} ELSE (procs \ {p}) \cup {q}

\* db.runTransaction: transaction.get(userRef), the values computed from
\* the record read, transaction.update(userRef, updates).
CompleteTxn(p) ==
    /\ p.h = "complete" /\ p.pc = "txn"
    /\ LET userDoc == TxnRead(UserOf(p))
           currentCompleted == userDoc.completedOrders
           newCompleted == IF isRedeemingFreeWash(p)
                           THEN currentCompleted ELSE currentCompleted + 1
           earnedFreeWash == /\ ~isRedeemingFreeWash(p)
                             /\ shouldGetFreeWash(newCompleted, WashesRequired)
       IN IF userDoc.exists
          THEN /\ users' = [users EXCEPT
                     ![UserOf(p)].lastVisit = Stamp(p),
                     ![UserOf(p)].completedOrders =
                         IF isRedeemingFreeWash(p) THEN @ ELSE @ + 1,
                     ![UserOf(p)].freeWashesAvailable =
                         IF earnedFreeWash THEN @ + 1 ELSE @]
               /\ procs' = Continue(p,
                      [p EXCEPT !.pc = AfterCommitPc(p, earnedFreeWash),
                                !.earned = earnedFreeWash])
               /\ ledgerLog' = ledgerLog \cup
                      {[LogEntry(p, "complete") EXCEPT
                            !.earned = earnedFreeWash]}
          ELSE /\ procs' = (procs \ {p}) \cup {At(p, "error")}
               /\ UNCHANGED <<users, ledgerLog>>
    /\ UNCHANGED <<settings, workers, orders, orderAudit, notifications,
                   writes, dups, initStats, history>>

AfterNotifyPc(p) == IF p.after.worker # NoWorker THEN "worker" ELSE "done"

Notification(p, type) ==
    [u |-> UserOf(p), type |-> type, o |-> p.o, v |-> p.after.v,
     copy |-> p.copy]

CompleteNotifyCompleted(p) ==
    /\ p.h = "complete" /\ p.pc = "notifyCompleted"
    /\ notifications' = notifications \cup {Notification(p, "order_completed")}
    /\ procs' = Continue(p,
           At(p, IF p.earned /\ getAppSettings.freeWashAvailable
                 THEN "notifyEarned" ELSE AfterNotifyPc(p)))
    /\ UNCHANGED <<settings, users, workers, orders, orderAudit,
                   writes, dups, initStats, ledgerLog, history>>

CompleteNotifyEarned(p) ==
    /\ p.h = "complete" /\ p.pc = "notifyEarned"
    /\ notifications' = notifications \cup {Notification(p, "free_wash_earned")}
    /\ procs' = Continue(p, At(p, AfterNotifyPc(p)))
    /\ UNCHANGED <<settings, users, workers, orders, orderAudit,
                   writes, dups, initStats, ledgerLog, history>>

\* workerRef.get() and workerRef.update({totalOrdersCompleted: increment(1)}).
CompleteWorker(p) ==
    /\ p.h = "complete" /\ p.pc = "worker"
    /\ workers' =
           IF workers[p.after.worker].exists
           THEN [workers EXCEPT ![p.after.worker].totalOrdersCompleted = @ + 1]
           ELSE workers
    /\ procs' = procs \ {p}
    /\ UNCHANGED <<settings, users, orders, orderAudit, notifications,
                   writes, dups, initStats, ledgerLog, history>>

\* workerRef.get() or workerRef.update() rejects (the record was deleted
\* after the get, or the call failed): the exception reaches the catch.
CompleteWorkerFails(p) ==
    /\ p.h = "complete" /\ p.pc = "worker"
    /\ procs' = (procs \ {p}) \cup {At(p, "error")}
    /\ UNCHANGED <<dbVars, writes, dups, initStats, ledgerLog, history>>

\* The exception leaving the handler instead of being recorded.
CompleteErrorRaises(p, d) ==
    /\ p.h = "complete" /\ p.pc = "error"
    /\ d = "none"
    /\ procs' = procs \ {p}
    /\ UNCHANGED <<dbVars, writes, dups, initStats, ledgerLog, history>>

CompleteError(p, d) ==
    /\ p.h = "complete" /\ p.pc = "error"
    /\ HandlerWrite(p, [orders[p.o] EXCEPT !.completionError = TRUE,
                                           !.v = @ + 1], d)
    /\ UNCHANGED <<settings, users, workers, orderAudit, notifications,
                   writes, initStats, ledgerLog>>

\* ------------------------------------------------------------ onOrderCancel
\* Restoring a credit for an order that paid with one, whatever its flag.
RestoresWhenRedeemed(after) == after.paymentMethod = "redeemed"

\* if (afterData.isFreeWash === true)
RestoresFreeWash(after) == after.isFreeWash = TRUE

CancelTxn(p) ==
    /\ p.h = "cancel" /\ p.pc = "txn"
    /\ IF TxnRead(UserOf(p)).exists
       THEN /\ users' = [users EXCEPT
                  ![UserOf(p)].cancelledOrders = @ + 1,
                  ![UserOf(p)].freeWashesAvailable =
                      IF RestoresFreeWash(p.after) THEN @ + 1 ELSE @]
            /\ procs' = (procs \ {p}) \cup {At(p, "audit")}
            /\ ledgerLog' = ledgerLog \cup
                   {LogEntry(p, "cancel")}
       ELSE /\ procs' = (procs \ {p}) \cup {At(p, "error")}
            /\ UNCHANGED <<users, ledgerLog>>
    /\ UNCHANGED <<settings, workers, orders, orderAudit, notifications,
                   writes, dups, initStats, history>>

CancelAudit(p) ==
    /\ p.h = "cancel" /\ p.pc = "audit"
    /\ orderAudit' = orderAudit \cup
           {[orderId |-> p.o, userId |-> UserOf(p), action |-> "cancelled",
             cancelledBy |-> p.after.cancelledBy,
             cancelReason |-> p.after.cancelReason,
             isFreeWash |-> p.after.isFreeWash,
             v |-> p.after.v, copy |-> p.copy]}
    /\ procs' = procs \ {p}
    /\ UNCHANGED <<settings, users, workers, orders, notifications,
                   writes, dups, initStats, ledgerLog, history>>

\* db.collection("orderAudit").add() rejects: the exception reaches the
\* catch.
CancelAuditFails(p) ==
    /\ p.h = "cancel" /\ p.pc = "audit"
    /\ procs' = (procs \ {p}) \cup {At(p, "error")}
    /\ UNCHANGED <<dbVars, writes, dups, initStats, ledgerLog, history>>

CancelError(p, d) ==
    /\ p.h = "cancel" /\ p.pc = "error"
    /\ HandlerWrite(p, [orders[p.o] EXCEPT !.cancellationError = TRUE,
                                           !.v = @ + 1], d)
    /\ UNCHANGED <<settings, users, workers, orderAudit, notifications,
                   writes, initStats, ledgerLog>>

\* ------------------------------------------------------------ specification
\* The steps of the system: clients create the orders os with a worker of
\* ws assigned and write statuses, the handlers take their steps, and a
\* notification may be delivered a second time to a handler of ds.
NextFor(os, ws, ds) ==
    \/ /\ \E o \in os, u \in Customers, redeem \in BOOLEAN, w \in ws,
             d \in ds \cap DupChoices({"create"}) :
             ClientCreate(o, u, redeem, w, d)
       /\ UNCHANGED sideVars
    \/ /\ \E o \in os, s \in Statuses, d \in ds : ClientWrite(o, s, d)
       /\ UNCHANGED sideVars
    \/ /\ \E p \in procs, a \in Orders \cup {0} : CreateGetActive(p, a)
       /\ UNCHANGED sideVars
    \/ /\ \E p \in procs, d \in ds : CreateCancelActive(p, d)
       /\ UNCHANGED sideVars
    \/ /\ \E p \in procs : CreateHasFree(p)
       /\ UNCHANGED sideVars
    \/ /\ \E p \in procs, d \in ds : CreateCancelNoFree(p, d)
       /\ UNCHANGED sideVars
    \/ /\ \E p \in procs : CreateDeduct(p)
       /\ UNCHANGED sideVars
    \/ /\ \E p \in procs : CreateStats(p)
       /\ UNCHANGED sideVars
    \/ /\ \E p \in procs, d \in ds : CreateError(p, d)
       /\ UNCHANGED sideVars
    \/ /\ \E p \in procs : CompleteTxn(p)
       /\ UNCHANGED sideVars
    \/ /\ \E p \in procs : CompleteNotifyCompleted(p)
       /\ UNCHANGED sideVars
    \/ /\ \E p \in procs : CompleteNotifyEarned(p)
       /\ UNCHANGED sideVars
    \/ /\ \E p \in procs : CompleteWorker(p)
       /\ UNCHANGED sideVars
    \/ /\ \E p \in procs, d \in ds : CompleteError(p, d)
       /\ UNCHANGED sideVars
    \/ /\ \E p \in procs : CancelTxn(p)
       /\ UNCHANGED sideVars
    \/ /\ \E p \in procs : CancelAudit(p)
       /\ UNCHANGED sideVars
    \/ /\ \E p \in procs, d \in ds : CancelError(p, d)
       /\ UNCHANGED sideVars

\* Each notification is delivered once; two orders of the customer.
Next == NextFor(Orders, {NoWorker, "w1"}, {"none"})

Spec == Init /\ [][Next]_vars

\* Notifications may be delivered twice (at-least-once delivery); every
\* order has the worker w1 assigned.
NextRedeliver ==
    NextFor(Orders, {"w1"}, {"none", "create", "complete", "cancel"})

SpecRedeliver == Init /\ [][NextRedeliver]_vars

\* The calls made after the customer mutation may fail.
NextFaults ==
    \/ NextFor(Orders, {"w1"}, {"none"})
    \/ (\E p \in procs : CompleteWorkerFails(p)) /\ UNCHANGED sideVars
    \/ (\E p \in procs : CancelAuditFails(p)) /\ UNCHANGED sideVars
    \/ (\E p \in procs : CreateStatsFails(p)) /\ UNCHANGED sideVars

SpecFaults == Init /\ [][NextFaults]_vars

\* settings/app_config with washesRequiredForFree 0 (or unset), or with a
\* notification toggle off; the customer has 5 completed orders.
SettingsChoices ==
    { [s |-> SettingsWith(0, TRUE, TRUE), exists |-> TRUE,
       completed |-> 5, free |-> 1],
      [s |-> SettingsWith(0, TRUE, TRUE), exists |-> FALSE,
       completed |-> 0, free |-> 0],
      [s |-> SettingsWith(6, FALSE, TRUE), exists |-> TRUE,
       completed |-> 5, free |-> 1],
      [s |-> SettingsWith(6, TRUE, FALSE), exists |-> TRUE,
       completed |-> 5, free |-> 1],
      [s |-> SettingsWith(6, FALSE, FALSE), exists |-> TRUE,
       completed |-> 5, free |-> 1] }

InitSettings == \E c \in SettingsChoices : InitWith(c)

SpecSettings == InitSettings /\ [][Next]_vars

\* ------------------------------------------------------------ calculations
\* Numbers with one decimal are kept as their number of tenths (4.7 is 47).
\* Math.round(x) for x = n / d >= 0: the nearest integer, halves upwards.
MathRound(n, d) == (2 * n + d) \div (2 * d)

RECURSIVE SumStars(_)
SumStars(ratings) ==
    IF ratings = <<>> THEN 0
    ELSE Head(ratings).stars + SumStars(Tail(ratings))

\* r.stars && r.stars > 0
ValidRating(r) == r.stars # 0 /\ r.stars > 0

\* An average that keeps the unrated entries in the divisor.
calculateAverageRatingOverAll(ratings) ==
    IF Len(ratings) = 0 THEN 0
    ELSE LET validRatings == SelectSeq(ratings, ValidRating)
         IN IF Len(validRatings) = 0 THEN 0
            ELSE MathRound(SumStars(validRatings) * 10, Len(ratings))

\* calculateAverageRating, in tenths.
calculateAverageRating(ratings) ==
    IF Len(ratings) = 0 THEN 0
    ELSE LET validRatings == SelectSeq(ratings, ValidRating)
         IN IF Len(validRatings) = 0 THEN 0
            ELSE MathRound(SumStars(validRatings) * 10, Len(validRatings))

\* An order as the calculations read it: service and worker are the ids
\* ("none" when the order has none), price 0 stands for a missing price,
\* stars 0 for a missing rating, minutes (completedAt - createdAt) -1 for
\* missing timestamps.
CalcOrder(status, paymentMethod, price, service, worker, stars, minutes) ==
    [status |-> status, paymentMethod |-> paymentMethod, price |-> price,
     service |-> service, worker |-> worker, stars |-> stars,
     minutes |-> minutes]

\* The prices of all completed orders.
RECURSIVE calculateRevenueOfCompleted(_)
calculateRevenueOfCompleted(os) ==
    IF os = <<>> THEN 0
    ELSE (IF Head(os).status = "completed" THEN Head(os).price ELSE 0)
         + calculateRevenueOfCompleted(Tail(os))

\* calculateRevenue
RECURSIVE calculateRevenue(_)
calculateRevenue(os) ==
    IF os = <<>> THEN 0
    ELSE (IF /\ Head(os).status = "completed"
             /\ Head(os).paymentMethod # "redeemed"
          THEN Head(os).price ELSE 0)
         + calculateRevenue(Tail(os))

\* calculateAverageServiceTime, in minutes.
IsTimed(order) == order.status = "completed" /\ order.minutes >= 0

RECURSIVE SumMinutes(_)
SumMinutes(os) ==
    IF os = <<>> THEN 0 ELSE Head(os).minutes + SumMinutes(Tail(os))

calculateAverageServiceTime(os) ==
    IF Len(os) = 0 THEN 0
    ELSE LET ordersWithTime == SelectSeq(os, IsTimed)
         IN IF Len(ordersWithTime) = 0 THEN 0
            ELSE MathRound(SumMinutes(ordersWithTime), Len(ordersWithTime))

\* The ids that are canonical array indices ("1", "2", "7") and their value.
IndexValue == ("1" :> 1) @@ ("2" :> 2) @@ ("7" :> 7)
IsArrayIndex(id) == id \in DOMAIN IndexValue

\* The keys of an object in the order they were first assigned.
RECURSIVE InsertionOrder(_, _)
InsertionOrder(ids, seen) ==
    IF ids = <<>> THEN <<>>
    ELSE IF Head(ids) \in seen THEN InsertionOrder(Tail(ids), seen)
    ELSE <<Head(ids)>> \o InsertionOrder(Tail(ids), seen \cup {Head(ids)})

RECURSIVE Ascending(_)
Ascending(S) ==
    IF S = {} THEN <<>>
    ELSE LET k == CHOOSE x \in S : \A y \in S : IndexValue[x] <= IndexValue[y]
         IN <<k>> \o Ascending(S \ {k})

NotArrayIndex(id) == ~IsArrayIndex(id)

\* Object.values(): the keys that are array indices come first, in ascending
\* numeric order, then the other keys in insertion order.
OwnPropertyOrder(keys) ==
    Ascending({ keys[i] : i \in { j \in 1..Len(keys) : IsArrayIndex(keys[j]) } })
        \o SelectSeq(keys, NotArrayIndex)

RECURSIVE CountOf(_, _)
CountOf(id, ids) ==
    IF ids = <<>> THEN 0
    ELSE (IF Head(ids) = id THEN 1 ELSE 0) + CountOf(id, Tail(ids))

\* groups.reduce((max, g) => g.count > max.count ? g : max)
RECURSIVE ReduceMax(_, _)
ReduceMax(groups, max) ==
    IF groups = <<>> THEN max
    ELSE ReduceMax(Tail(groups),
                   IF Head(groups).count > max.count THEN Head(groups) ELSE max)

Null == [id |-> "null", count |-> 0]

\* The group-by-id counting of findMostPopularService and findTopWorker over
\* the ids of the orders that count.
MostFrequent(ids) ==
    LET keys == OwnPropertyOrder(InsertionOrder(ids, {}))
        groups == [i \in 1..Len(keys) |->
                      [id |-> keys[i], count |-> CountOf(keys[i], ids)]]
    IN IF Len(groups) = 0 THEN Null
       ELSE ReduceMax(Tail(groups), Head(groups))

HasService(order) == order.service # "none"
HasCompletedWorker(order) ==
    order.worker # "none" /\ order.status = "completed"

findMostPopularService(os) ==
    IF Len(os) = 0 THEN Null
    ELSE LET counted == SelectSeq(os, HasService)
         IN MostFrequent([i \in 1..Len(counted) |-> counted[i].service])

findTopWorker(os) ==
    IF Len(os) = 0 THEN Null
    ELSE LET counted == SelectSeq(os, HasCompletedWorker)
         IN MostFrequent([i \in 1..Len(counted) |-> counted[i].worker])

\* ------------------------------------------------------------- dailyMetrics
IsCompleted(order) == order.status = "completed"
IsCancelled(order) == order.status = "cancelled"
IsInProgress(order) == order.status = "in_progress"
IsRated(order) == order.status = "completed" /\ order.stars # 0
IsRedeemed(order) ==
    order.status = "completed" /\ order.paymentMethod = "redeemed"

\* The report saved when the query finds no order.
EmptyMetrics ==
    [totalOrders |-> 0, completedOrders |-> 0, cancelledOrders |-> 0,
     inProgressOrders |-> 0, revenue |-> 0, freeWashesRedeemed |-> 0,
     averageServiceTime |-> 0, mostPopularService |-> Null,
     topWorker |-> Null, averageRating |-> 0]

\* The metrics computed from the orders found.
ComputedMetrics(os) ==
    LET completedOrders == SelectSeq(os, IsCompleted)
        ratingsArray == SelectSeq(os, IsRated)
    IN [totalOrders |-> Len(os),
        completedOrders |-> Len(completedOrders),
        cancelledOrders |-> Len(SelectSeq(os, IsCancelled)),
        inProgressOrders |-> Len(SelectSeq(os, IsInProgress)),
        revenue |-> calculateRevenue(completedOrders),
        freeWashesRedeemed |-> Len(SelectSeq(os, IsRedeemed)),
        averageServiceTime |-> calculateAverageServiceTime(completedOrders),
        mostPopularService |-> findMostPopularService(os),
        topWorker |-> findTopWorker(completedOrders),
        averageRating |-> calculateAverageRating(ratingsArray),
        totalRatings |-> Len(ratingsArray)]

\* dailyMetrics over the orders created in the day's range.
DailyMetrics ==
    /\ args.fn = "dailyMetrics"
    /\ dailyReports = {}
    /\ dailyReports' =
           {[date |-> "yesterday",
             metrics |-> IF args.orders = <<>> THEN EmptyMetrics
                         ELSE ComputedMetrics(args.orders)]}
    /\ UNCHANGED <<args, result>>

\* -------------------------------------------- the calculations, applied
MaxList == 3

\* The lists of at most n elements of S.
ListsOver(S, n) == UNION { [1..k -> S] : k \in 0..n }

Arguments(fn, os, completedOrders, washesRequired) ==
    [fn |-> fn, orders |-> os, completedOrders |-> completedOrders,
     washesRequired |-> washesRequired]

RevenueOrders ==
    { CalcOrder(st, pm, price, "none", "none", 0, -1) :
        st \in {"completed", "cancelled"}, pm \in {"cash", "redeemed"},
        price \in {0, 15000} }

RatingEntries ==
    { CalcOrder("completed", "cash", 0, "none", "none", stars, -1) :
        stars \in {0, 3, 4, 5} }

ServiceOrders ==
    { CalcOrder("pending", "cash", 0, service, "none", 0, -1) :
        service \in {"none", "1", "2", "wax"} }

WorkerOrders ==
    { CalcOrder(st, "cash", 0, "none", worker, 0, -1) :
        st \in {"completed", "pending"}, worker \in {"none", "7", "w1", "w2"} }

MetricOrders ==
    { CalcOrder("completed", "cash", 15000, "1", "w1", 5, 20),
      CalcOrder("completed", "redeemed", 15000, "wax", "w2", 0, 35),
      CalcOrder("cancelled", "cash", 15000, "wax", "none", 0, -1),
      CalcOrder("in_progress", "cash", 15000, "1", "w1", 0, -1),
      CalcOrder("pending", "cash", 0, "none", "none", 0, -1) }

InitCalc ==
    /\ CoreInit([s |-> DefaultSettings, exists |-> FALSE,
                 completed |-> 0, free |-> 0])
    /\ RatingIdle /\ SendIdle /\ AdminIdle
    /\ args \in
           { Arguments("shouldGetFreeWash", <<>>, c, w) :
               c \in -1..13, w \in -1..7 }
           \cup { Arguments("calculateRevenue", os, 0, 0) :
                    os \in ListsOver(RevenueOrders, MaxList) }
           \cup { Arguments("calculateAverageRating", os, 0, 0) :
                    os \in ListsOver(RatingEntries, MaxList + 1) }
           \cup { Arguments("findMostPopularService", os, 0, 0) :
                    os \in ListsOver(ServiceOrders, MaxList) }
           \cup { Arguments("findTopWorker", os, 0, 0) :
                    os \in ListsOver(WorkerOrders, MaxList) }
           \cup { Arguments("dailyMetrics", os, 0, 0) :
                    os \in ListsOver(MetricOrders, MaxList - 1) }
    /\ result = <<>>
    /\ dailyReports = {}

\* The call of the function named by args with the arguments drawn.
Apply(fn, value) ==
    /\ args.fn = fn
    /\ result = <<>>
    /\ result' = <<value>>
    /\ UNCHANGED <<args, dailyReports>>

CalcStep(A) == A /\ UNCHANGED <<coreVars, ratingVars, sendVars, adminVars>>

NextCalc ==
    \/ CalcStep(Apply("shouldGetFreeWash",
           shouldGetFreeWash(args.completedOrders, args.washesRequired)))
    \/ CalcStep(Apply("calculateRevenue", calculateRevenue(args.orders)))
    \/ CalcStep(Apply("calculateAverageRating",
           calculateAverageRating(args.orders)))
    \/ CalcStep(Apply("findMostPopularService",
           findMostPopularService(args.orders)))
    \/ CalcStep(Apply("findTopWorker", findTopWorker(args.orders)))
    \/ CalcStep(DailyMetrics)

SpecCalc == InitCalc /\ [][NextCalc]_vars

\* ------------------------------------------------------------ onRatingAdded
MaxRated == 3
RatedOrders == 1..MaxRated
\* rating.stars as clients write it; 0 stands for an order without rating.
Stars == {2, 4, 5}
NoRating == 0

\* if (beforeData.rating || !afterData.rating) return null;
RatingFires(before, after) ==
    ~(before.stars # NoRating \/ after.stars = NoRating)

\* The documents of a query in document order.
RECURSIVE InIdOrder(_)
InIdOrder(S) ==
    IF S = {} THEN <<>>
    ELSE LET o == CHOOSE x \in S : \A y \in S : x <= y
         IN <<o>> \o InIdOrder(S \ {o})

\* orders.where("worker.id", "==", workerId).where("status", "==",
\* "completed"), keeping the documents with rating && rating.stars.
RatingsArray(workerId) ==
    LET found == { o \in RatedOrders :
                     /\ ratingOrders[o].worker = workerId
                     /\ ratingOrders[o].status = "completed"
                     /\ ratingOrders[o].stars # NoRating }
        ids == InIdOrder(found)
    IN [i \in 1..Len(ids) |->
           [stars |-> ratingOrders[ids[i]].stars, orderId |-> ids[i]]]

\* The onRatingAdded invocations a write of order o (before -> after)
\* starts.  The handler returns before its first await when the guard fails
\* or the order has no worker, and is then not kept as an invocation.
RatingSpawn(o, before, after) ==
    IF RatingFires(before, after) /\ after.worker # NoWorker
    THEN {[o |-> o, after |-> after, pc |-> "query", ratingsArray |-> <<>>]}
    ELSE {}

\* A client attaches a rating to order o.
ClientRate(o, stars) ==
    /\ ratingOrders[o].stars = NoRating
    /\ LET after == [ratingOrders[o] EXCEPT !.stars = stars]
       IN /\ ratingOrders' = [ratingOrders EXCEPT ![o] = after]
          /\ ratingProcs' = ratingProcs \cup
                 RatingSpawn(o, ratingOrders[o], after)
    /\ UNCHANGED <<workerStats, alerts>>

RatingQuery(p) ==
    /\ p.pc = "query"
    /\ LET ratingsArray == RatingsArray(p.after.worker)
       IN ratingProcs' = (ratingProcs \ {p}) \cup
              IF Len(ratingsArray) = 0 THEN {}
              ELSE {[p EXCEPT !.pc = "update",
                              !.ratingsArray = ratingsArray]}
    /\ UNCHANGED <<ratingOrders, workerStats, alerts>>

\* workerRef.update({averageRating, totalRatings}); the update of a record
\* that does not exist throws.
RatingUpdateWorker(p) ==
    /\ p.pc = "update"
    /\ IF workerStats[p.after.worker].exists
       THEN /\ workerStats' = [workerStats EXCEPT ![p.after.worker] =
                   [@ EXCEPT !.averageRating =
                                 calculateAverageRating(p.ratingsArray),
                             !.totalRatings = Len(p.ratingsArray)]]
            /\ ratingProcs' = (ratingProcs \ {p}) \cup
                   IF p.after.stars < 3 THEN {[p EXCEPT !.pc = "alert"]}
                   ELSE {}
       ELSE /\ ratingProcs' = (ratingProcs \ {p}) \cup
                   {[p EXCEPT !.pc = "error"]}
            /\ UNCHANGED workerStats
    /\ UNCHANGED <<ratingOrders, alerts>>

RatingAlert(p) ==
    /\ p.pc = "alert"
    /\ alerts' = alerts \cup
           {[type |-> "low_rating", orderId |-> p.o,
             workerId |-> p.after.worker, userId |-> p.after.userId,
             rating |-> p.after.stars, resolved |-> FALSE]}
    /\ ratingProcs' = ratingProcs \ {p}
    /\ UNCHANGED <<ratingOrders, workerStats>>

\* The catch records ratingProcessingError on the order, a write that
\* onRatingAdded is notified of like any other.
RatingError(p) ==
    /\ p.pc = "error"
    /\ LET after == [ratingOrders[p.o] EXCEPT !.ratingProcessingError = TRUE]
       IN /\ ratingOrders' = [ratingOrders EXCEPT ![p.o] = after]
          /\ ratingProcs' = (ratingProcs \ {p}) \cup
                 RatingSpawn(p.o, ratingOrders[p.o], after)
    /\ UNCHANGED <<workerStats, alerts>>

\* The orders to be rated, each with a worker of ws and a status of ss.
InitRatingWith(ws, ss) ==
    /\ CoreInit([s |-> DefaultSettings, exists |-> FALSE,
                 completed |-> 0, free |-> 0])
    /\ CalcIdle /\ SendIdle /\ AdminIdle
    /\ ratingOrders \in [RatedOrders ->
           [worker : ws,
            status : ss,
            userId : Customers, stars : {NoRating},
            ratingProcessingError : {FALSE}]]
    /\ workerStats = [w \in Workers |->
           [exists |-> (w = "w1"), averageRating |-> 0, totalRatings |-> 0]]
    /\ alerts = {}
    /\ ratingProcs = {}

\* Each order has a worker with a record (w1), a worker without one (w2) or
\* no worker, and is completed or still in progress.
InitRating ==
    InitRatingWith({NoWorker, "w1", "w2"}, {"completed", "in_progress"})

RatingStep(A) == A /\ UNCHANGED <<coreVars, calcVars, sendVars, adminVars>>

NextRating ==
    \/ RatingStep(\E o \in RatedOrders, stars \in Stars : ClientRate(o, stars))
    \/ RatingStep(\E p \in ratingProcs : RatingQuery(p))
    \/ RatingStep(\E p \in ratingProcs : RatingUpdateWorker(p))
    \/ RatingStep(\E p \in ratingProcs : RatingAlert(p))
    \/ RatingStep(\E p \in ratingProcs : RatingError(p))

SpecRating == InitRating /\ [][NextRating]_vars

\* --------------------------------------------------------------- sendToUser
MaxSends == 3

SendCalls == 1..MaxSends
Recipients == {"u0", "u1"}
NoToken == "none"
\* The error codes on which the catch deletes the stored token.
TokenErrors == {"messaging/invalid-registration-token",
                "messaging/registration-token-not-registered"}
OtherError == "messaging/internal-error"
\* What admin.messaging().send can answer for a stored token.
SendOutcomes(token) ==
    IF token = "stale" THEN TokenErrors \cup {OtherError}
    ELSE {"ok", OtherError}

SendStarted == { c.id : c \in sendCalls } \cup { l.id : l \in sendLog }

\* A caller invokes sendToUser(userId, ...).
SendStart(userId) ==
    /\ \E id \in SendCalls \ SendStarted :
         /\ \A other \in SendStarted : other < id
         /\ sendCalls' = sendCalls \cup
                {[id |-> id, userId |-> userId, pc |-> "get", code |-> "none",
                  token |-> NoToken, attempted |-> FALSE,
                  after |-> { l.id : l \in { k \in sendLog :
                                  k.userId = userId /\ k.code \in TokenErrors } }]}
    /\ UNCHANGED <<fcmUsers, sendLog>>

\* The value the call hands back to its caller.
SendReturn(c, success, error) ==
    /\ sendCalls' = sendCalls \ {c}
    /\ sendLog' = sendLog \cup
           {[id |-> c.id, userId |-> c.userId, outcome |-> "returned",
             success |-> success, error |-> error, code |-> c.code,
             attempted |-> c.attempted, after |-> c.after]}

\* users/{userId}.get() and the two early returns.
SendGet(c) ==
    /\ c.pc = "get"
    /\ IF ~fcmUsers[c.userId].exists
       THEN SendReturn(c, FALSE, "User not found")
       ELSE IF fcmUsers[c.userId].fcmToken = NoToken
       THEN SendReturn(c, FALSE, "No FCM token")
       ELSE /\ sendCalls' = (sendCalls \ {c}) \cup {[c EXCEPT !.pc = "send",
                              !.token = fcmUsers[c.userId].fcmToken]}
            /\ UNCHANGED sendLog
    /\ UNCHANGED fcmUsers

\* users/{userId}.get() rejects.
SendGetFails(c) ==
    /\ c.pc = "get"
    /\ sendCalls' = (sendCalls \ {c}) \cup
           {[c EXCEPT !.pc = "catch", !.code = "unavailable"]}
    /\ UNCHANGED <<fcmUsers, sendLog>>

\* admin.messaging().send(message) with the token read by this call.
SendDeliver(c, outcome) ==
    /\ c.pc = "send"
    /\ IF outcome = "ok"
       THEN SendReturn([c EXCEPT !.attempted = TRUE], TRUE, "none")
       ELSE /\ sendCalls' = (sendCalls \ {c}) \cup
                   {[c EXCEPT !.pc = "catch", !.code = outcome,
                              !.attempted = TRUE]}
            /\ UNCHANGED sendLog
    /\ UNCHANGED fcmUsers

\* A catch that leaves the stored token in place.
SendCatchKeepingToken(c) ==
    /\ c.pc = "catch"
    /\ UNCHANGED fcmUsers
    /\ SendReturn(c, FALSE, c.code)

\* The catch: a token error deletes users/{userId}.fcmToken (an update that
\* throws for a missing record is caught and logged), then the error is
\* returned.
SendCatch(c) ==
    /\ c.pc = "catch"
    /\ fcmUsers' =
           IF c.code \in TokenErrors /\ fcmUsers[c.userId].exists
           THEN [fcmUsers EXCEPT ![c.userId].fcmToken = NoToken]
           ELSE fcmUsers
    /\ SendReturn(c, FALSE, c.code)

\* u0 has no users record; u1 has one, with no token, a deliverable token or
\* a token the messaging service no longer accepts.
InitSend ==
    /\ CoreInit([s |-> DefaultSettings, exists |-> FALSE,
                 completed |-> 0, free |-> 0])
    /\ RatingIdle /\ CalcIdle /\ AdminIdle
    /\ \E token \in {NoToken, "good", "stale"} :
         fcmUsers = [u \in Recipients |->
                       IF u = "u0" THEN [exists |-> FALSE, fcmToken |-> NoToken]
                       ELSE [exists |-> TRUE, fcmToken |-> token]]
    /\ sendCalls = {}
    /\ sendLog = {}

SendStep(A) == A /\ UNCHANGED <<coreVars, ratingVars, calcVars, adminVars>>

NextSend ==
    \/ SendStep(\E u \in Recipients : SendStart(u))
    \/ SendStep(\E c \in sendCalls : SendGet(c))
    \/ SendStep(\E c \in sendCalls : SendGetFails(c))
    \/ SendStep(\E c \in sendCalls :
                  \E outcome \in SendOutcomes(c.token) :
                      SendDeliver(c, outcome))
    \/ SendStep(\E c \in sendCalls : SendCatch(c))

SpecSend == InitSend /\ [][NextSend]_vars

\* ------------------------------------------------------------ all triggers
\* The four triggers on orders/{orderId}: the order lifecycle with each
\* notification delivered once and the worker w1 assigned, or the ratings of
\* completed orders of the workers w1 and w2.  The platform runs every
\* invoked handler on to its end: a handler that can take a step eventually
\* takes one; clients may stop at any time.
InitTriggers == Init \/ InitRatingWith({"w1", "w2"}, {"completed"})

NextTriggers ==
    \/ ratingOrders = <<>> /\ NextFor(Orders, {"w1"}, {"none"})
    \/ ratingOrders # <<>> /\ NextRating

\* A step of a running handler invocation.
HandlerStep ==
    /\ NextTriggers
    /\ procs \ procs' # {} \/ ratingProcs \ ratingProcs' # {}

SpecTriggers ==
    InitTriggers /\ [][NextTriggers]_vars /\ WF_vars(HandlerStep)

\* ---------------------------------------------------------- sendNotification
\* The request of a call: who calls, and for each field of data whether it
\* is missing or what kind of value it holds.
Callers == {"none", "user", "admin"}
validTypes == {"broadcast", "specific", "conditional"}
RequestTypes == validTypes \cup {"missing", "other"}
UsersValues == {"missing", "string", "array"}
KnownConditions == {"has_free_washes", "inactive_30_days",
                    "completed_5_plus", "has_unredeemed_washes"}
Conditions == KnownConditions \cup {"missing", "unknown"}

Requests ==
    [auth : Callers, type : RequestTypes, title : BOOLEAN, body : BOOLEAN,
     users : UsersValues, condition : Conditions]

\* The checks made before the try block, in their order: the code of the
\* first HttpsError thrown, or "none".
Rejection(data) ==
    IF data.auth = "none" THEN "unauthenticated"
    ELSE IF data.auth # "admin" THEN "permission-denied"
    ELSE IF data.type = "missing" THEN "invalid-argument"
    ELSE IF ~data.title \/ ~data.body THEN "invalid-argument"
    ELSE IF data.type \notin validTypes THEN "invalid-argument"
    ELSE IF data.type = "specific" /\ data.users # "array"
         THEN "invalid-argument"
    ELSE IF data.type = "conditional" /\ data.condition = "missing"
         THEN "invalid-argument"
    ELSE "none"

AdminAt(pc, error) == [adminCall EXCEPT !.pc = pc, !.error = error]

\* Authentication and parameter checks: the call is rejected or enters the
\* try block.
AdminValidate ==
    /\ adminCall.pc = "start"
    /\ adminCall' =
           IF Rejection(adminCall.data) # "none"
           THEN AdminAt("done", Rejection(adminCall.data))
           ELSE AdminAt("send", "none")
    /\ UNCHANGED <<dispatched, notificationLog>>

\* The switch on data.type: sendBroadcast, sendToMultipleUsers or, for a
\* predefined condition, sendConditional; an unrecognised condition throws
\* an invalid-argument HttpsError inside the try block.
AdminSend ==
    /\ adminCall.pc = "send"
    /\ LET data == adminCall.data
       IN IF data.type = "conditional" /\ data.condition \notin KnownConditions
          THEN /\ adminCall' = AdminAt("catch", "invalid-argument")
               /\ UNCHANGED dispatched
          ELSE /\ adminCall' = AdminAt("log", "none")
               /\ dispatched' = dispatched \cup
                      {[type |-> data.type,
                        sentTo |-> IF data.type = "broadcast" THEN "all"
                                   ELSE IF data.type = "specific"
                                   THEN data.users
                                   ELSE data.condition]}
    /\ UNCHANGED notificationLog

\* The users query of the send helper rejects; the helper rethrows.
AdminSendFails ==
    /\ adminCall.pc = "send"
    /\ \/ adminCall.data.type = "broadcast"
       \/ /\ adminCall.data.type = "conditional"
          /\ adminCall.data.condition \in KnownConditions
    /\ adminCall' = AdminAt("catch", "unavailable")
    /\ UNCHANGED <<dispatched, notificationLog>>

\* db.collection("notifications").add(...) and the return of the result.
AdminLog ==
    /\ adminCall.pc = "log"
    /\ notificationLog' = notificationLog \cup
           {[type |-> adminCall.data.type, sentBy |-> adminCall.data.auth]}
    /\ adminCall' = AdminAt("done", "none")
    /\ UNCHANGED dispatched

\* catch (error): whatever was thrown inside the try block leaves the call
\* as HttpsError("internal", ...).
AdminCatch ==
    /\ adminCall.pc = "catch"
    /\ adminCall' = AdminAt("done", "internal")
    /\ UNCHANGED <<dispatched, notificationLog>>

InitAdmin ==
    /\ CoreInit([s |-> DefaultSettings, exists |-> FALSE,
                 completed |-> 0, free |-> 0])
    /\ RatingIdle /\ CalcIdle /\ SendIdle
    /\ \E data \in Requests :
         adminCall = [data |-> data, pc |-> "start", error |-> "none"]
    /\ dispatched = {}
    /\ notificationLog = {}

AdminStep(A) == A /\ UNCHANGED <<coreVars, ratingVars, calcVars, sendVars>>

NextAdmin ==
    \/ AdminStep(AdminValidate)
    \/ AdminStep(AdminSend)
    \/ AdminStep(AdminSendFails)
    \/ AdminStep(AdminLog)
    \/ AdminStep(AdminCatch)

SpecAdmin == InitAdmin /\ [][NextAdmin]_vars

\* ------------------------------------------------------------------ claims
\* The entries of the history of a given kind for customer u.
Applied(kind, u) == { e \in ledgerLog : e.kind = kind /\ e.u = u }

PaidCompletions(u) ==
    { e \in Applied("complete", u) : e.paymentMethod # "redeemed" }

\* washesRequiredForFree as configured, 6 when settings/app_config is absent.
ConfiguredWashes == getAppSettings.washesRequiredForFree

PositiveMultiple(n, w) == n > 0 /\ n % w = 0

\* C1: every Complete transition of a paid order (paymentMethod other than
\* "redeemed") of a customer whose record exists adds exactly 1 to
\* completedOrders, and adds exactly 1 to freeWashesAvailable if the new
\* completedOrders is a positive multiple of washesRequiredForFree, and
\* leaves freeWashesAvailable unchanged otherwise.
C1_PaidCompletionCredits ==
    [][\A p \in procs :
          ( /\ CompleteTxn(p)
            /\ p.after.paymentMethod # "redeemed"
            /\ users[UserOf(p)].exists )
          => LET old == users[UserOf(p)]
                 new == users'[UserOf(p)]
             IN /\ new.completedOrders = old.completedOrders + 1
                /\ new.freeWashesAvailable =
                       old.freeWashesAvailable +
                       (IF PositiveMultiple(new.completedOrders,
                                            ConfiguredWashes)
                        THEN 1 ELSE 0)]_vars

\* A paid completion has been applied and has earned a credit.
C1_Witness ==
    \E u \in Customers :
        /\ PaidCompletions(u) # {}
        /\ users[u].completedOrders = initStats[u].completedOrders + 1
        /\ users[u].freeWashesAvailable = initStats[u].freeWashesAvailable + 1
        /\ PositiveMultiple(users[u].completedOrders, ConfiguredWashes)

\* C2: freeWashesAvailable of every customer is >= 0 in every reachable
\* state, whatever orders are created and cancelled.
C2_FreeWashesNonNegative ==
    \A u \in Customers : users[u].freeWashesAvailable >= 0

\* C3: the Cancel transition of an order adds exactly 1 to cancelledOrders;
\* it adds exactly 1 to freeWashesAvailable when the order is a redemption
\* at the time of the transition and leaves it unchanged otherwise.
C3_CancelRestoresCredit ==
    [][\A p \in procs :
          (CancelTxn(p) /\ users[UserOf(p)].exists)
          => LET old == users[UserOf(p)]
                 new == users'[UserOf(p)]
             IN /\ new.cancelledOrders = old.cancelledOrders + 1
                /\ new.freeWashesAvailable =
                       old.freeWashesAvailable +
                       (IF p.after.isFreeWash THEN 1 ELSE 0)]_vars

\* A redemption order and a paid order have both been cancelled.
C3_Witness ==
    \E u \in Customers :
        /\ \E e \in Applied("cancel", u) : e.isFreeWash
        /\ \E e \in Applied("cancel", u) : ~e.isFreeWash

\* C4: completing a redemption order never changes completedOrders: in every
\* state completedOrders is its initial value plus the number of Complete
\* transitions of paid orders.
C4_RedemptionNotCounted ==
    \A u \in Customers :
        users[u].exists =>
            users[u].completedOrders =
                initStats[u].completedOrders + Cardinality(PaidCompletions(u))

\* A redemption order and a paid order have both been completed.
C4_Witness ==
    \E u \in Customers :
        /\ \E e \in Applied("complete", u) : e.paymentMethod = "redeemed"
        /\ PaidCompletions(u) # {}

\* The fields of a customer record that make up the ledger.
Ledger(user) ==
    <<user.completedOrders, user.freeWashesAvailable, user.cancelledOrders>>

\* Another delivery of the notification p handles has applied its customer
\* mutation and has finished.
DeliveredBefore(p) ==
    /\ \E e \in ledgerLog :
          /\ e.kind = p.h /\ e.o = p.o /\ e.v = p.after.v /\ e.copy # p.copy
    /\ ~\E q \in procs :
          /\ q.h = p.h /\ q.o = p.o /\ q.after.v = p.after.v /\ q.copy # p.copy

\* C5: a second delivery of the same (before = pending, after = completed)
\* notification changes neither the customer ledger nor the worker's
\* totalOrdersCompleted: the handler's steps for it leave both as the first
\* delivery left them.
C5_DuplicateDeliveryIdempotent ==
    [][\A p \in procs :
          ( /\ p.h = "complete"
            /\ p.before.status = "pending" /\ p.after.status = "completed"
            /\ DeliveredBefore(p)
            /\ (CompleteTxn(p) \/ CompleteWorker(p)) )
          => /\ Ledger(users'[UserOf(p)]) = Ledger(users[UserOf(p)])
             /\ workers' = workers]_vars

\* The credits a customer earns when completedOrders goes from c0 to c1.
MultiplesBetween(c0, c1, w) == (c1 \div w) - (c0 \div w)

\* C6: concurrent customer mutations lose no update: in every state, however
\* the handlers interleaved, completedOrders is the initial value plus the
\* number N of paid completions applied, freeWashesAvailable has grown by
\* the number of multiples of washesRequiredForFree in (initial, initial+N]
\* plus the credits restored by cancellations less those deducted at
\* creation, and cancelledOrders by the number of cancellations applied.
C6_NoLostUpdates ==
    \A u \in Customers :
        users[u].exists =>
            LET c0 == initStats[u].completedOrders
                n == Cardinality(PaidCompletions(u))
                restored == { e \in Applied("cancel", u) : e.isFreeWash }
            IN /\ users[u].completedOrders = c0 + n
               /\ users[u].cancelledOrders =
                      initStats[u].cancelledOrders
                          + Cardinality(Applied("cancel", u))
               /\ users[u].freeWashesAvailable =
                      initStats[u].freeWashesAvailable
                          + MultiplesBetween(c0, c0 + n, ConfiguredWashes)
                          + Cardinality(restored)
                          - Cardinality(Applied("deduct", u))

\* Two Complete handlers of paid orders of one customer have both applied
\* their mutation while both were running, and a credit was earned.
C6_Witness ==
    \E p, q \in procs :
        /\ p.h = "complete" /\ q.h = "complete" /\ p.o # q.o
        /\ UserOf(p) = UserOf(q)
        /\ p.after.paymentMethod # "redeemed"
        /\ q.after.paymentMethod # "redeemed"
        /\ p.pc # "txn" /\ q.pc # "txn" /\ p.pc # "error" /\ q.pc # "error"
        /\ users[UserOf(p)].freeWashesAvailable
               > initStats[UserOf(p)].freeWashesAvailable

\* C7: the credit check and the deduction of onOrderCreate are one atomic
\* step: a Create handler deducts a credit only from a balance that is
\* positive when it deducts, so that of two redemption orders racing for
\* one credit at most one deducts it.
C7_AtomicCheckAndDeduct ==
    [][\A p \in procs :
          CreateDeduct(p) => users[UserOf(p)].freeWashesAvailable > 0]_vars

\* The handlers a write of order o starts in a step.
Started(h, o) ==
    \E q \in procs' \ procs :
        /\ q.h = h /\ q.o = o /\ q.pc = "txn"
        /\ q.before = orders[o] /\ q.after = orders'[o]

\* C8: for every write of an order, with beforeStatus and afterStatus over
\* {pending, in_progress, completed, cancelled}, the Complete handler runs
\* iff beforeStatus # completed and afterStatus = completed and the Cancel
\* handler runs iff beforeStatus # cancelled and afterStatus = cancelled; a
\* handler that does not run reads and writes nothing.
C8_TransitionGuard ==
    [][\A o \in Orders :
          (orders[o].exists /\ orders'[o] # orders[o])
          => /\ Started("complete", o)
                 <=> ( /\ orders[o].status # "completed"
                       /\ orders'[o].status = "completed" )
             /\ Started("cancel", o)
                 <=> ( /\ orders[o].status # "cancelled"
                       /\ orders'[o].status = "cancelled" )]_vars

\* A Complete handler runs on a cancelled -> completed notification and no
\* Cancel handler runs on it.
C8_Witness ==
    \E p \in procs :
        /\ p.h = "complete" /\ p.pc = "txn"
        /\ p.before.status = "cancelled" /\ p.after.status = "completed"
        /\ ~\E q \in procs : q.h = "cancel" /\ q.o = p.o /\ q.after.v = p.after.v

\* C9: completed and cancelled are terminal: a notification of a status
\* write on an order that was already completed or cancelled causes no
\* customer mutation.
C9_TerminalStatesFinal ==
    [][\A p \in procs :
          ( /\ p.before.status \in {"completed", "cancelled"}
            /\ (CompleteTxn(p) \/ CancelTxn(p)) )
          => Ledger(users'[UserOf(p)]) = Ledger(users[UserOf(p)])]_vars

\* The customer of the new order p.o has another order in
\* {pending, in_progress}.
OtherActiveOrder(p) ==
    \E x \in Orders \ {p.o} :
        /\ orders[x].exists
        /\ orders[x].userId = UserOf(p)
        /\ orders[x].status \in {"pending", "in_progress"}

\* C10: whenever the Create handler runs its active-order check for a new
\* order while the same customer has another order in {pending,
\* in_progress}, it goes on to force-cancel the new order (and so deducts no
\* credit and updates neither totalOrders nor lastVisit).
C10_ActiveOrderForcesCancel ==
    [][\A p \in procs :
          ((\E a \in Orders \cup {0} : CreateGetActive(p, a))
              /\ OtherActiveOrder(p))
          => At(p, "cancelActive") \in procs']_vars

\* Handler invocation p takes the step.
Steps(p) == p \in procs /\ p \notin procs'

SameInvocation(p, q) ==
    q.h = p.h /\ q.o = p.o /\ q.after.v = p.after.v /\ q.copy = p.copy

\* Handler invocation p takes its last step.
Finishes(p) == Steps(p) /\ ~\E q \in procs' : SameInvocation(p, q)

\* C11: a redemption order whose credit check finds no credit (balance 0 or
\* customer record missing) is force-cancelled with its isFreeWash flag
\* cleared, the Create handler deducts nothing, and handling the cancel
\* notification of that force-cancel leaves freeWashesAvailable as it was.
C11_NoCreditForceCancel ==
    [][\A p \in procs :
          /\ ( /\ p.h = "create" /\ p.pc = "hasFree" /\ Steps(p)
               /\ ~( /\ users[UserOf(p)].exists
                     /\ users[UserOf(p)].freeWashesAvailable > 0 ) )
             => At(p, "cancelNoFree") \in procs' /\ users' = users
          /\ (p.h = "create" /\ p.pc = "cancelNoFree" /\ Steps(p))
             => /\ orders'[p.o].status = "cancelled"
                /\ orders'[p.o].isFreeWash = FALSE
                /\ users' = users
                /\ ~\E e \in ledgerLog' :
                      e.kind = "deduct" /\ e.o = p.o /\ e.copy = p.copy
          /\ ( /\ p.h = "cancel" /\ p.after.cancelReason = "nofree"
               /\ Steps(p) )
             => users'[UserOf(p)].freeWashesAvailable
                    = users[UserOf(p)].freeWashesAvailable]_vars

\* The cancel notification of a force-cancel for lack of credit has been
\* handled for a customer whose record exists.
C11_Witness ==
    \E a \in orderAudit :
        /\ a.cancelReason = "nofree" /\ a.isFreeWash = FALSE
        /\ users[a.userId].exists

\* C12: every Create handler that does not force-cancel for the active-order
\* reason adds exactly 1 to totalOrders and updates lastVisit before it
\* finishes, also when it force-cancels for lack of free washes.
C12_CreateCountsTotalOrders ==
    [][\A p \in procs :
          ( /\ p.h = "create" /\ Finishes(p)
            /\ p.pc # "cancelActive"
            /\ users[UserOf(p)].exists )
          => /\ users'[UserOf(p)].totalOrders
                    = users[UserOf(p)].totalOrders + 1
             /\ users'[UserOf(p)].lastVisit = Stamp(p)]_vars

\* C13: every Cancel handler that passed the guard appends exactly one audit
\* record of its order before it finishes, whether its customer mutation
\* committed or aborted.
C13_CancelAlwaysAudited ==
    [][\A p \in procs :
          (p.h = "cancel" /\ Finishes(p))
          => /\ Cardinality(orderAudit' \ orderAudit) = 1
             /\ \A a \in orderAudit' \ orderAudit :
                   /\ a.orderId = p.o /\ a.userId = UserOf(p)
                   /\ a.cancelledBy = p.after.cancelledBy
                   /\ a.cancelReason = p.after.cancelReason
                   /\ a.isFreeWash = p.after.isFreeWash]_vars

\* C14: with washesRequiredForFree configured as 0 (or unset) no step of a
\* Complete handler increments freeWashesAvailable or dispatches a
\* free-wash-earned notification.
C14_ZeroDisablesEarning ==
    [][\A p \in procs :
          (p.h = "complete" /\ Steps(p) /\ ConfiguredWashes = 0)
          => /\ users'[UserOf(p)].freeWashesAvailable
                    = users[UserOf(p)].freeWashesAvailable
             /\ \A n \in notifications' \ notifications :
                   n.type # "free_wash_earned"]_vars

\* C15: when the customer record is missing, the Complete or Cancel handler
\* changes no customer record and dispatches no notification; it records
\* completionError / cancellationError on its order and finishes.
C15_AbortRecordedOnOrder ==
    [][\A p \in procs :
          ( /\ p.h \in UpdateHandlers /\ Steps(p)
            /\ ~users[UserOf(p)].exists )
          => /\ users' = users
             /\ notifications' = notifications
             /\ IF p.pc = "txn"
                THEN At(p, "error") \in procs' /\ orders' = orders
                ELSE /\ p.pc = "error"
                     /\ Finishes(p)
                     /\ p.h = "complete" => orders'[p.o].completionError
                     /\ p.h = "cancel" => orders'[p.o].cancellationError]_vars

\* An order of a customer without a record carries both annotations and no
\* handler is running.
C15_Witness ==
    \E o \in Orders :
        /\ orders[o].completionError /\ orders[o].cancellationError
        /\ ~users[orders[o].userId].exists
        /\ procs = {} /\ notifications = {}

\* The customer mutation of the Complete handler that dispatched n.
CommitOf(n) ==
    { e \in ledgerLog :
        e.kind = "complete" /\ e.o = n.o /\ e.v = n.v /\ e.copy = n.copy }

Dispatched(e, type) ==
    \E n \in notifications :
        n.type = type /\ n.o = e.o /\ n.v = e.v /\ n.copy = e.copy

\* The Complete handler of mutation e has not yet left its notification
\* steps.
Notifying(e) ==
    \E p \in procs :
        /\ p.h = "complete" /\ p.o = e.o /\ p.after.v = e.v /\ p.copy = e.copy
        /\ p.pc \in {"notifyCompleted", "notifyEarned"}

\* C16: a Complete handler dispatches notifications only after its customer
\* mutation committed; the order-completed notification (sent iff its
\* toggle is on) precedes the free-wash-earned one; and the
\* free-wash-earned notification is dispatched iff the committed mutation
\* granted a credit and the freeWashAvailable toggle is on.
C16_NotificationsAfterCommit ==
    /\ \A n \in notifications :
          /\ CommitOf(n) # {}
          /\ n.type = "order_completed" => getAppSettings.orderCompleted
          /\ n.type = "free_wash_earned" =>
                /\ getAppSettings.freeWashAvailable
                /\ \A e \in CommitOf(n) : e.earned
                /\ getAppSettings.orderCompleted =>
                      \A e \in CommitOf(n) : Dispatched(e, "order_completed")
    /\ \A e \in ledgerLog :
          (e.kind = "complete" /\ ~Notifying(e))
          => /\ Dispatched(e, "order_completed")
                 <=> getAppSettings.orderCompleted
             /\ Dispatched(e, "free_wash_earned")
                 <=> (e.earned /\ getAppSettings.freeWashAvailable)
    /\ \A u \in Customers :
          users[u].exists =>
              users[u].freeWashesAvailable =
                  initStats[u].freeWashesAvailable
                  + Cardinality({ e \in Applied("complete", u) : e.earned })
                  + Cardinality({ e \in Applied("cancel", u) : e.isFreeWash })
                  - Cardinality(Applied("deduct", u))

\* completedOrders went from 5 to 6 with washesRequiredForFree = 6 and the
\* free-wash-earned notification was dispatched, the order-completed toggle
\* being off.
C16_Witness ==
    \E n \in notifications :
        /\ n.type = "free_wash_earned"
        /\ ConfiguredWashes = 6
        /\ ~getAppSettings.orderCompleted
        /\ initStats[n.u].completedOrders = 5
        /\ users[n.u].completedOrders = 6

\* The customer mutation of handler invocation p has been applied.
Committed(p) ==
    \E e \in ledgerLog :
        e.kind = p.h /\ e.o = p.o /\ e.v = p.after.v /\ e.copy = p.copy

\* C17: a failure of the worker-stat update or of the audit write after the
\* customer mutation committed is not escalated: a handler whose mutation
\* committed writes no completionError / cancellationError on its order.
C17_BestEffortNotEscalated ==
    [][\A p \in procs :
          (p.h \in UpdateHandlers /\ p.pc = "error" /\ Steps(p))
          => ~Committed(p)]_vars

\* C18: every Complete handler that passed the guard on an order whose
\* assigned worker has a record adds exactly 1 to that worker's
\* totalOrdersCompleted before it finishes, whether or not its customer
\* mutation succeeded.
C18_WorkerAlwaysCounted ==
    [][\A p \in procs :
          ( /\ p.h = "complete" /\ Finishes(p)
            /\ p.after.worker # NoWorker
            /\ workers[p.after.worker].exists )
          => workers'[p.after.worker].totalOrdersCompleted
                 = workers[p.after.worker].totalOrdersCompleted + 1]_vars

\* C19: in every state every order has isFreeWash = true iff its
\* paymentMethod is "redeemed".
C19_FlagMatchesPaymentMethod ==
    \A o \in Orders :
        orders[o].exists =>
            (orders[o].isFreeWash <=> orders[o].paymentMethod = "redeemed")

\* The writes in the history of order o that changed its status to s.
EdgesInto(o, s) ==
    { i \in 2..Len(history[o]) :
        history[o][i].status = s /\ history[o][i - 1].status # s }

RestoringEdges(o) ==
    { i \in EdgesInto(o, "cancelled") : history[o][i].isFreeWash }

RECURSIVE SumOver(_, _)
SumOver(S, f) ==
    IF S = {} THEN 0
    ELSE LET x == CHOOSE y \in S : TRUE IN f[x] + SumOver(S \ {x}, f)

OrdersOf(u) == { o \in Orders : orders[o].exists /\ orders[o].userId = u }

\* What handling the update notifications of the orders' write histories one
\* at a time, in write order, leaves in the customer ledger.
InWriteOrder(u) ==
    LET paid == { o \in OrdersOf(u) : orders[o].paymentMethod # "redeemed" }
        n == SumOver(paid,
                 [o \in Orders |-> Cardinality(EdgesInto(o, "completed"))])
        c0 == initStats[u].completedOrders
    IN <<c0 + n,
         initStats[u].freeWashesAvailable
             + MultiplesBetween(c0, c0 + n, ConfiguredWashes)
             + SumOver(OrdersOf(u),
                   [o \in Orders |-> Cardinality(RestoringEdges(o))])
             - Cardinality(Applied("deduct", u)),
         initStats[u].cancelledOrders
             + SumOver(OrdersOf(u),
                   [o \in Orders |-> Cardinality(EdgesInto(o, "cancelled"))])>>

WorkerInWriteOrder(w) ==
    SumOver({ o \in Orders : /\ orders[o].exists /\ orders[o].worker = w
                             /\ users[orders[o].userId].exists },
            [o \in Orders |-> Cardinality(EdgesInto(o, "completed"))])

HandlerStatus(h) == IF h = "complete" THEN "completed" ELSE "cancelled"

\* C20: the update notifications of an order are handled correctly in any
\* order: each status change into completed / cancelled is applied to the
\* customer record exactly once, whichever of the order's notifications
\* is handled first, and once the handlers have finished the customer
\* ledger and the workers' totalOrdersCompleted are what handling the
\* notifications in write order leaves.
C20_OutOfOrderTolerated ==
    /\ \A o \in Orders, h \in UpdateHandlers :
          (orders[o].exists /\ users[orders[o].userId].exists)
          => Cardinality({ e \in ledgerLog : e.kind = h /\ e.o = o })
               + Cardinality({ p \in procs :
                                 p.h = h /\ p.o = o /\ p.pc = "txn" })
               = Cardinality(EdgesInto(o, HandlerStatus(h)))
    /\ (\A p \in procs : p.h = "create")
       => /\ \A u \in Customers :
                users[u].exists => Ledger(users[u]) = InWriteOrder(u)
          /\ \A w \in Workers :
                workers[w].totalOrdersCompleted = WorkerInWriteOrder(w)

\* The cancel notification of an order's later write has been handled while
\* the complete notification of its earlier write is still waiting.
C20_Witness ==
    \E p \in procs :
        /\ p.h = "complete" /\ p.pc = "txn"
        /\ users[UserOf(p)].exists
        /\ \E e \in ledgerLog :
              e.kind = "cancel" /\ e.o = p.o /\ e.v > p.after.v

\* C21: when a step of the Create sequence fails after an earlier step was
\* applied, the catch leaves the customer record as the applied steps left
\* it (a deducted credit stays deducted), records processingError on the
\* order, leaves the order's status unchanged, and the handler finishes.
C21_CreateFailureNotRolledBack ==
    [][\A p \in procs :
          (p.h = "create" /\ p.pc = "error" /\ Steps(p))
          => /\ users' = users
             /\ ledgerLog' = ledgerLog
             /\ orders'[p.o].processingError
             /\ orders'[p.o].status = orders[p.o].status
             /\ Finishes(p)]_vars

\* The totalOrders update of a redemption order failed after its credit was
\* deducted: the order is still pending with processingError recorded, the
\* credit stays deducted and the handler has finished.
C21_Witness ==
    \E o \in Orders :
        /\ orders[o].processingError /\ orders[o].status = "pending"
        /\ users[orders[o].userId].exists
        /\ \E e \in ledgerLog : e.kind = "deduct" /\ e.o = o
        /\ users[orders[o].userId].freeWashesAvailable
               = initStats[orders[o].userId].freeWashesAvailable - 1
        /\ users[orders[o].userId].totalOrders
               = initStats[orders[o].userId].totalOrders
        /\ procs = {}

\* C30: credit conservation: a Cancel transition restores a credit only for
\* an order whose Create handler deducted one, so that freeWashesAvailable
\* is the initial balance plus the credits earned less the credits deducted
\* for redemption orders that have not been cancelled.
C30_CreditConservation ==
    [][\A p \in procs :
          ( /\ CancelTxn(p)
            /\ users'[UserOf(p)].freeWashesAvailable
                   > users[UserOf(p)].freeWashesAvailable )
          => \E e \in ledgerLog : e.kind = "deduct" /\ e.o = p.o]_vars

\* The worker's completed orders whose rating has stars > 0.
RatedCompleted(w) ==
    { o \in RatedOrders :
        /\ ratingOrders[o].worker = w
        /\ ratingOrders[o].status = "completed"
        /\ ratingOrders[o].stars > 0 }

\* a (in tenths) is the mean of the stars of the orders S rounded to one
\* decimal: no other number of tenths is nearer to it, a half going up.
IsRoundedMean(a, S) ==
    LET sum == SumOver(S, [o \in RatedOrders |-> ratingOrders[o].stars])
        n == Cardinality(S)
    IN /\ 2 * (10 * sum - a * n) < n
       /\ 2 * (a * n - 10 * sum) <= n

\* C22: once the Rating-added transitions have been handled, the stats of
\* every worker with rated completed orders hold the mean of stars, rounded
\* to one decimal, over all completed orders of that worker with stars > 0
\* as averageRating, and the number of those orders as totalRatings.
C22_WorkerAverageRecomputed ==
    ratingProcs = {} =>
        \A w \in Workers :
            (workerStats[w].exists /\ RatedCompleted(w) # {})
            => /\ workerStats[w].totalRatings = Cardinality(RatedCompleted(w))
               /\ IsRoundedMean(workerStats[w].averageRating,
                                RatedCompleted(w))

\* C23: once the Rating-added transitions have been handled, every order
\* rated with stars < 3 has exactly one low-rating alert with resolved =
\* false, and an order rated with stars >= 3 has none.
C23_LowRatingAlert ==
    ratingProcs = {} =>
        \A o \in RatedOrders :
            ratingOrders[o].stars # NoRating =>
                LET mine == { a \in alerts : a.orderId = o }
                IN /\ Cardinality(mine)
                       = (IF ratingOrders[o].stars < 3 THEN 1 ELSE 0)
                   /\ \A a \in mine : a.resolved = FALSE

\* The value returned by the calculation fn, once it has been applied.
Returned(fn) == args.fn = fn /\ result # <<>>

\* C24: shouldGetFreeWash(completed, required) is false whenever required
\* <= 0, and otherwise true exactly when completed is a positive multiple of
\* required: (6,6) true, (7,6) false, (12,6) true, (x,0) false.
C24_ShouldGetFreeWash ==
    Returned("shouldGetFreeWash") =>
        LET c == args.completedOrders
            w == args.washesRequired
        IN /\ result[1] <=> (w > 0 /\ \E k \in 1..c : c = k * w)
           /\ (c = 6 /\ w = 6) => result[1] = TRUE
           /\ (c = 7 /\ w = 6) => result[1] = FALSE
           /\ (c = 12 /\ w = 6) => result[1] = TRUE
           /\ w = 0 => result[1] = FALSE

\* shouldGetFreeWash(12, 6) has returned true.
C24_Witness ==
    /\ Returned("shouldGetFreeWash")
    /\ args.completedOrders = 12 /\ args.washesRequired = 6
    /\ result[1] = TRUE

\* The positions of a list whose order is a paid completed one.
PaidCompleted(os) ==
    { i \in 1..Len(os) :
        os[i].status = "completed" /\ os[i].paymentMethod # "redeemed" }

\* C25: revenue(orders) is the sum of the service price over exactly the
\* orders with status completed and paymentMethod other than redeemed.
C25_Revenue ==
    Returned("calculateRevenue") =>
        result[1] = SumOver(PaidCompleted(args.orders),
                            [i \in 1..Len(args.orders) |-> args.orders[i].price])

\* A completed cash order and a completed redeemed order at 15000 each
\* gave 15000.
C25_Witness ==
    /\ Returned("calculateRevenue")
    /\ Len(args.orders) = 2
    /\ \A i \in 1..2 : /\ args.orders[i].status = "completed"
                       /\ args.orders[i].price = 15000
    /\ args.orders[1].paymentMethod = "cash"
    /\ args.orders[2].paymentMethod = "redeemed"
    /\ result[1] = 15000

\* C26: averageRating(ratings), in tenths, is the mean of stars over the
\* entries with stars > 0 rounded to one decimal (the nearest number of
\* tenths, a half going up), and 0 when no entry has stars > 0.
C26_AverageRating ==
    Returned("calculateAverageRating") =>
        LET rated == { i \in 1..Len(args.orders) : args.orders[i].stars > 0 }
            n == Cardinality(rated)
            sum == SumOver(rated,
                       [i \in 1..Len(args.orders) |-> args.orders[i].stars])
            a == result[1]
        IN IF n = 0 THEN a = 0
           ELSE /\ 2 * (10 * sum - a * n) < n
                /\ 2 * (a * n - 10 * sum) <= n

\* Stars 5, 3, 4 gave 4.0.
C26_Witness ==
    /\ Returned("calculateAverageRating")
    /\ Len(args.orders) = 3
    /\ args.orders[1].stars = 5 /\ args.orders[2].stars = 3
    /\ args.orders[3].stars = 4
    /\ result[1] = 40

\* The id seen first in ids among those with the highest count, "null" for
\* no id.
FirstSeenMax(ids) ==
    IF ids = <<>> THEN "null"
    ELSE LET best == { i \in 1..Len(ids) :
                         \A j \in 1..Len(ids) :
                             CountOf(ids[j], ids) <= CountOf(ids[i], ids) }
         IN ids[CHOOSE i \in best : \A j \in best : i <= j]

CountedIds(fn, os) ==
    IF fn = "findMostPopularService"
    THEN LET counted == SelectSeq(os, HasService)
         IN [i \in 1..Len(counted) |-> counted[i].service]
    ELSE LET counted == SelectSeq(os, HasCompletedWorker)
         IN [i \in 1..Len(counted) |-> counted[i].worker]

\* C27: mostPopularService and topWorker return the group with the highest
\* count and, among several with the highest count, the one whose id was
\* seen first in the order list, whatever the form of the ids.
C27_FirstSeenWinsTies ==
    \A fn \in {"findMostPopularService", "findTopWorker"} :
        Returned(fn) =>
            LET ids == CountedIds(fn, args.orders)
            IN /\ result[1].id = FirstSeenMax(ids)
               /\ result[1].count = CountOf(result[1].id, ids)

ElevenFields ==
    {"totalOrders", "completedOrders", "cancelledOrders", "inProgressOrders",
     "revenue", "freeWashesRedeemed", "averageServiceTime",
     "mostPopularService", "topWorker", "averageRating", "totalRatings"}

\* C28: every report carries the same eleven metric fields, and the report
\* saved for an empty order set is the record the general computation
\* yields on an empty set.
C28_EmptyReportSameShape ==
    \A r \in dailyReports :
        /\ DOMAIN r.metrics = ElevenFields
        /\ args.orders = <<>> => r.metrics = ComputedMetrics(<<>>)

CreatesFinished == \A p \in procs : p.h # "create"

\* C31: once all Create handlers of a customer's orders have finished, the
\* customer has at most one order in {pending, in_progress}, also when the
\* orders are created back to back or their handlers run concurrently (no
\* client having written a status).
C31_AtMostOneActive ==
    (CreatesFinished /\ writes = 0)
    => \A u \in Customers : Cardinality(ActiveOrders(u)) <= 1

\* Order o was force-cancelled by its Create handler because the lookup
\* returned another active order.
CancelledForActive(o) ==
    /\ orders[o].exists
    /\ orders[o].status = "cancelled"
    /\ orders[o].cancelledBy = "system"
    /\ orders[o].cancelReason = "active"

\* C32: of two orders created concurrently for a customer without another
\* active order at least one survives: the Create handlers never
\* force-cancel both for the active-order reason.
C32_OneSurvives ==
    \A u \in Customers :
        OrdersOf(u) # {} => \E o \in OrdersOf(u) : ~CancelledForActive(o)

\* The mutations of the given kind that handlers of the creation
\* notification of order o have applied.
AppliedAtCreate(kind, o) == { e \in ledgerLog : e.kind = kind /\ e.o = o }

\* C34: a second delivery of the creation notification is harmless: the
\* Create handlers of one order together deduct at most one free-wash credit
\* and add to totalOrders at most once.
C34_CreateRedeliveryHarmless ==
    \A o \in Orders :
        /\ Cardinality(AppliedAtCreate("deduct", o)) <= 1
        /\ Cardinality(AppliedAtCreate("stats", o)) <= 1

\* The statuses written on order o, in write order.
StatusHistory(o) == [i \in 1..Len(history[o]) |-> history[o][i].status]

\* Order o is the only order of customer u, a redemption order created when
\* u had at least one credit, and every handler has finished.
LoneRedemption(u, o) ==
    /\ procs = {}
    /\ OrdersOf(u) = {o}
    /\ history[o][1].isFreeWash
    /\ initStats[u].exists
    /\ initStats[u].freeWashesAvailable >= 1

\* C35: for a customer with at least one credit and no other active order,
\* a redemption order that is created and then cancelled leaves
\* freeWashesAvailable at its original value, one that is created and then
\* completed leaves it at original - 1 with completedOrders unchanged, and
\* the completion of an order whose Create deducted a credit never
\* increments completedOrders.
C35_RedemptionNetEffect ==
    /\ [](\A u \in Customers : \A o \in Orders :
            LoneRedemption(u, o) =>
              /\ StatusHistory(o) = <<"pending", "cancelled">> =>
                    users[u].freeWashesAvailable
                        = initStats[u].freeWashesAvailable
              /\ StatusHistory(o) = <<"pending", "completed">> =>
                    /\ users[u].freeWashesAvailable
                           = initStats[u].freeWashesAvailable - 1
                    /\ users[u].completedOrders
                           = initStats[u].completedOrders)
    /\ [][\A p \in procs :
            (CompleteTxn(p) /\ AppliedAtCreate("deduct", p.o) # {})
            => users'[UserOf(p)].completedOrders
                   = users[UserOf(p)].completedOrders]_vars

\* A lone redemption order was created, its credit deducted, and completed;
\* the balance is one less than at the start.
C35_Witness ==
    \E u \in Customers : \E o \in Orders :
        /\ LoneRedemption(u, o)
        /\ StatusHistory(o) = <<"pending", "completed">>
        /\ AppliedAtCreate("deduct", o) # {}
        /\ \E e \in ledgerLog : e.kind = "complete" /\ e.o = o
        /\ users[u].freeWashesAvailable = initStats[u].freeWashesAvailable - 1

\* C36: in every reachable state, for each customer, cancelledOrders <=
\* totalOrders and completedOrders + cancelledOrders <= totalOrders, orders
\* force-cancelled at creation included.
C36_CounterConsistency ==
    \A u \in Customers :
        users[u].exists =>
            /\ users[u].cancelledOrders <= users[u].totalOrders
            /\ users[u].completedOrders + users[u].cancelledOrders
                   <= users[u].totalOrders

\* C37: when ratings are added to two completed orders of one worker, then
\* however the two Rating-added handlers interleave, once both have finished
\* the worker's totalRatings is 2 and averageRating is the rounded mean of
\* both ratings.
C37_RatingQuiescentlyConsistent ==
    \A w \in Workers : \A a, b \in RatedOrders :
        ( /\ a # b
          /\ ratingProcs = {}
          /\ workerStats[w].exists
          /\ RatedCompleted(w) = {a, b} )
        => /\ workerStats[w].totalRatings = 2
           /\ IsRoundedMean(workerStats[w].averageRating, {a, b})

\* C38: a Rating-added transition on an order whose status is not completed
\* changes no worker's averageRating / totalRatings and creates no
\* low-rating alert: no step of its handler changes the worker stats or the
\* alerts.
C38_RatingOnlyOnCompleted ==
    [][\A p \in ratingProcs :
          (p.after.status # "completed" /\ p \notin ratingProcs')
          => workerStats' = workerStats /\ alerts' = alerts]_vars

\* The validation failures of a send-notification request: missing or
\* unknown type, missing title or body, users not an array for type
\* specific, missing or unrecognised condition for type conditional.
ValidationFailure(data) ==
    \/ data.type \notin validTypes
    \/ ~data.title \/ ~data.body
    \/ data.type = "specific" /\ data.users # "array"
    \/ data.type = "conditional" /\ data.condition \notin KnownConditions

\* C39: every validation failure of an administrator's send-notification
\* request is rejected as an invalid-argument error, before any
\* notification is dispatched and before any log record is written.
C39_ValidationRejectedFirst ==
    ( /\ adminCall.data.auth = "admin"
      /\ ValidationFailure(adminCall.data) )
    => /\ dispatched = {}
       /\ notificationLog = {}
       /\ adminCall.pc = "done" => adminCall.error = "invalid-argument"

\* The invocations of the order-lifecycle handlers a step starts.
StartedBy(p) == { q \in procs' \ procs : ~SameInvocation(p, q) }

====
